---- MODULE Spec2Model ----
(***************************************************************************)
(* State-machine model of src-tauri/src/lib.rs: the two tauri commands     *)
(* chat_completions (blocking) and chat_completions_stream (SSE relay).    *)
(*                                                                         *)
(* Text is a sequence of units.  The bytes the code itself inspects (the   *)
(* "data: " prefix, the "[DONE]" sentinel, CR, LF, blanks) are single      *)
(* characters.  A JSON document is written with one unit per run of JSON   *)
(* text (see the table at from_str), so that a document still has interior *)
(* positions where a network fragment can end.                             *)
(***************************************************************************)
EXTENDS Naturals, Sequences, FiniteSets

\* ------------------------------------------------------------------ bounds
MaxLines == 2   \* lines of an SSE body
MaxFrags == 2   \* fragments the byte stream delivers in one call

\* -------------------------------------------------------------- text units
LF == "\n"
CR == "\r"
SP == " "
InvalidByte == "0xFF"        \* a byte that is not valid UTF-8
Replacement == "U+FFFD"      \* what lossy decoding puts in its place
None == "None"               \* Option::None

DataPrefix == <<"d", "a", "t", "a", ":", SP>>      \* "data: "
DoneSentinel == <<"[", "D", "O", "N", "E", "]">>   \* "[DONE]"
PrefixLen == 6                                     \* &line[6..]

Calls == {1, 2}

\* ------------------------------------------------------------ pure helpers
Min(S) == CHOOSE x \in S : \A y \in S : x <= y

\* String::from_utf8_lossy / Response::text: invalid bytes become U+FFFD.
from_utf8_lossy(bytes) ==
    [i \in 1..Len(bytes) |-> IF bytes[i] = InvalidByte THEN Replacement ELSE bytes[i]]

\* str::split_inclusive('\n'): pieces keep their terminator, the last piece
\* may lack one; each piece is given with its offset in text.
RECURSIVE split_inclusive(_, _)
split_inclusive(text, off) ==
    IF text = <<>> THEN <<>>
    ELSE LET nl == {i \in 1..Len(text) : text[i] = LF}
             k  == IF nl = {} THEN Len(text) ELSE Min(nl)
         IN <<[off |-> off, text |-> SubSeq(text, 1, k)]>>
            \o split_inclusive(SubSeq(text, k + 1, Len(text)), off + k)

\* strip_line as split_inclusive('\n') would leave it: the terminator stays
strip_line_keeps_terminator(piece) == piece

\* The closure of str::lines: strip one trailing "\n", then one trailing "\r"
\* (a "\r" that is not followed by "\n" stays).
strip_line(piece) ==
    IF piece # <<>> /\ piece[Len(piece)] = LF
    THEN LET l == SubSeq(piece, 1, Len(piece) - 1)
         IN IF l # <<>> /\ l[Len(l)] = CR THEN SubSeq(l, 1, Len(l) - 1) ELSE l
    ELSE piece

\* the map of str::lines over the pieces
RECURSIVE strip_lines(_)
strip_lines(ps) ==
    IF ps = <<>> THEN <<>>
    ELSE <<[off |-> ps[1].off, text |-> strip_line(ps[1].text)]>> \o strip_lines(Tail(ps))

\* str::lines, each line with the offset (in text) of its first unit.
lines(text) == strip_lines(split_inclusive(text, 0))

starts_with(line, prefix) ==
    Len(line) >= Len(prefix) /\ SubSeq(line, 1, Len(prefix)) = prefix

\* &line[n..]
slice_from(line, n) == SubSeq(line, n + 1, Len(line))

\* ------------------------------------------------------------- JSON decode
(***************************************************************************)
(* Units of JSON text:                                                     *)
(*   "J"  {"id":"1","object":"o","created":1,"model":"m","choices":[       *)
(*   "h"  {"index":0,"delta":{"content":"Hel"}}                            *)
(*   "l"  {"index":0,"delta":{"content":"lo"}}                             *)
(*   "r"  {"index":0,"delta":{"reasoning_content":"why"}}                  *)
(*   "b"  {"index":0,"delta":{"content":"Hel","reasoning_content":"why"}}  *)
(*   "n"  {"index":0,"delta":{}}                                           *)
(*   "E"  ]}                                                               *)
(*   "m"  {"index":0,"message":{"role":"assistant","content":"Hello"}}     *)
(*   "{" "}" the two characters of the empty object                        *)
(* (the commas between the elements of a list go with the elements).       *)
(***************************************************************************)
DeltaUnits == {"h", "l", "r", "b", "n"}

\* struct StreamDelta, as deserialized from one element unit
StreamDelta(u) ==
    [content |-> IF u \in {"h", "b"} THEN "Hel" ELSE IF u = "l" THEN "lo" ELSE None,
     reasoning_content |-> IF u \in {"r", "b"} THEN "why" ELSE None]

IsWhitespace(u) == u \in {SP, LF, CR, "\t"}

\* serde_json skips whitespace around the document
RECURSIVE trim(_)
trim(s) ==
    IF s = <<>> THEN s
    ELSE IF IsWhitespace(s[1]) THEN trim(Tail(s))
    ELSE IF IsWhitespace(s[Len(s)]) THEN trim(SubSeq(s, 1, Len(s) - 1))
    ELSE s

\* serde_json::from_str::<StreamChunk>: Ok only for a complete object with
\* every required field of StreamChunk and a well-typed choices list.
from_str(data) ==
    LET t == trim(data)
    IN IF /\ Len(t) >= 2
          /\ t[1] = "J"
          /\ t[Len(t)] = "E"
          /\ \A i \in 2..(Len(t) - 1) : t[i] \in DeltaUnits
       THEN [ok |-> TRUE,
             choices |-> [i \in 1..(Len(t) - 2) |-> [delta |-> StreamDelta(t[i + 1])]]]
       ELSE [ok |-> FALSE, choices |-> <<>>]

\* Response::json::<ChatResponse>: the body bytes must be valid UTF-8 and a
\* complete object with every required field of ChatResponse.
json_ChatResponse(body) ==
    LET t == trim(body)
    IN IF /\ Len(t) >= 2
          /\ t[1] = "J"
          /\ t[Len(t)] = "E"
          /\ \A i \in 2..(Len(t) - 1) : t[i] = "m"
       THEN [ok |-> TRUE, choices |-> Len(t) - 2]
       ELSE [ok |-> FALSE, choices |-> 0]

\* ------------------------------------------------------ the streaming loop
\* struct StreamData
StreamData(content, reasoning_content, done) ==
    [content |-> content, reasoning_content |-> reasoning_content, done |-> done]

\* data == "[DONE]"
is_done(data) == data = DoneSentinel

\* first_choice with json.choices.last() in place of first()
first_choice_takes_last(choices) ==
    IF choices = <<>> THEN <<>>
    ELSE <<StreamData(choices[Len(choices)].delta.content,
                      choices[Len(choices)].delta.reasoning_content, FALSE)>>

\* json.choices.first(): the update of a parsed chunk, if it has a choice
first_choice(choices) ==
    IF choices = <<>> THEN <<>>
    ELSE <<StreamData(choices[1].delta.content,
                      choices[1].delta.reasoning_content, FALSE)>>

\* line_step with the `return Ok(())` after the done event left out
line_step_no_return(line) ==
    IF starts_with(line, DataPrefix)
    THEN LET data == slice_from(line, PrefixLen)
         IN IF is_done(data)
            THEN [emits |-> <<StreamData(None, None, TRUE)>>, returned |-> FALSE]
            ELSE LET json == from_str(data)
                 IN [emits |-> IF json.ok THEN first_choice(json.choices) ELSE <<>>,
                     returned |-> FALSE]
    ELSE [emits |-> <<>>, returned |-> FALSE]

\* line_step with a parse failure ending the call instead of being skipped
line_step_parse_aborts(line) ==
    IF starts_with(line, DataPrefix)
    THEN LET data == slice_from(line, PrefixLen)
         IN IF is_done(data)
            THEN [emits |-> <<StreamData(None, None, TRUE)>>, returned |-> TRUE]
            ELSE LET json == from_str(data)
                 IN [emits |-> IF json.ok THEN first_choice(json.choices) ELSE <<>>,
                     returned |-> ~json.ok]
    ELSE [emits |-> <<>>, returned |-> FALSE]

\* line_step reading the field as the SSE format does: `data:`, then one
\* optional space
line_step_optional_space(line) ==
    IF starts_with(line, SubSeq(DataPrefix, 1, PrefixLen - 1))
    THEN LET rest == slice_from(line, PrefixLen - 1)
             data == IF rest # <<>> /\ rest[1] = SP THEN Tail(rest) ELSE rest
         IN IF is_done(data)
            THEN [emits |-> <<StreamData(None, None, TRUE)>>, returned |-> TRUE]
            ELSE LET json == from_str(data)
                 IN [emits |-> IF json.ok THEN first_choice(json.choices) ELSE <<>>,
                     returned |-> FALSE]
    ELSE [emits |-> <<>>, returned |-> FALSE]

\* What one line makes the loop body do: the StreamData it hands to emit (at
\* most one) and whether the function returns after it.
line_step(line) ==
    IF starts_with(line, DataPrefix)
    THEN LET data == slice_from(line, PrefixLen)
         IN IF is_done(data)
            THEN [emits |-> <<StreamData(None, None, TRUE)>>, returned |-> TRUE]
            ELSE LET json == from_str(data)
                 IN [emits |-> IF json.ok THEN first_choice(json.choices) ELSE <<>>,
                     returned |-> FALSE]
    ELSE [emits |-> <<>>, returned |-> FALSE]

\* for_lines walking the lines last to first
RECURSIVE for_lines_reversed(_, _, _)
for_lines_reversed(ls, i, base) ==
    IF i > Len(ls) THEN [emits |-> <<>>, returned |-> FALSE]
    ELSE LET st  == line_step(ls[i].text)
             now == [j \in 1..Len(st.emits) |-> [data |-> st.emits[j], at |-> base + ls[i].off]]
             rest == for_lines_reversed(ls, i + 1, base)
         IN IF rest.returned THEN rest
            ELSE [emits |-> rest.emits \o now, returned |-> st.returned]

\* for line in text.lines() { ... }: the emit calls made from line i on, each
\* with the offset (base + offset in text) of the line that made it, and
\* whether the loop was left by `return Ok(())`.
RECURSIVE for_lines(_, _, _)
for_lines(ls, i, base) ==
    IF i > Len(ls) THEN [emits |-> <<>>, returned |-> FALSE]
    ELSE LET st  == line_step(ls[i].text)
             now == [j \in 1..Len(st.emits) |-> [data |-> st.emits[j], at |-> base + ls[i].off]]
         IN IF st.returned THEN [emits |-> now, returned |-> TRUE]
            ELSE LET rest == for_lines(ls, i + 1, base)
                 IN [emits |-> now \o rest.emits, returned |-> rest.returned]

\* The line loop over the text of one chunk; base is the offset of the chunk
\* in the body.
on_chunk(text, base) == for_lines(lines(text), 1, base)

\* after_chunk with `break` in place of `return Ok(())`
after_chunk_reads_on(returned) == "next"

\* Where the task stands after the line loop.
after_chunk(returned) == IF returned THEN "ret_done" ELSE "next"

\* emit_calls with the first refused emit ending the line loop
emit_calls_stop_at_refusal(emits, sink) ==
    LET bad == {j \in 1..Len(emits) : ~sink[j]}
        n   == IF bad = {} THEN Len(emits) ELSE Min(bad)
    IN [j \in 1..n |-> [data |-> emits[j].data, at |-> emits[j].at, delivered |-> sink[j]]]

\* `let _ = app_handle.emit(...)`: every emit call of the loop is made,
\* whether the sink accepted (sink[j]) the ones before it or not.
emit_calls(emits, sink) ==
    [j \in 1..Len(emits) |->
        [data |-> emits[j].data, at |-> emits[j].at, delivered |-> sink[j]]]

\* ------------------------------------------------------------------ inputs
Line(payload) == DataPrefix \o payload \o <<LF>>

LineKinds ==
    { Line(<<"J", "h", "E">>),                       \* a chunk with content
      DataPrefix \o <<"J", "r", "E", CR, LF>>,       \* a chunk, CRLF-terminated
      Line(<<InvalidByte>>),                         \* not JSON
      Line(<<"{", "}">>),                            \* JSON, not a StreamChunk
      Line(DoneSentinel) }                           \* the sentinel

RECURSIVE Concat(_)
Concat(ss) == IF ss = <<>> THEN <<>> ELSE Head(ss) \o Concat(Tail(ss))

\* SSE bodies: up to MaxLines terminated lines, each of one of the kinds
Payloads(kinds) ==
    {Concat(ls) : ls \in UNION {[1..n -> kinds] : n \in 0..MaxLines}}

\* bodies of a non-streaming response
Bodies ==
    { <<"J", "m", "E">>,          \* a ChatResponse
      <<"{", "}">>,               \* JSON with the required fields missing
      <<"rate limited">> }        \* plain text

\* What the remote end answers once the request got through.
Wire(m) ==
    [success : {FALSE}, body : Bodies]
    \cup [success : {TRUE}, body : IF m = "stream" THEN Payloads(LineKinds) ELSE Bodies]

NoWire == [success |-> FALSE, body |-> <<>>]

\* ------------------------------------------------------------------- state
VARIABLES
    mode,       \* per call: "blocking" (chat_completions), "stream"
                \* (chat_completions_stream) or "idle" (not invoked)
    enable_deep_thinking,   \* per call: the argument of that name
    request_body,           \* per call: the JSON object handed to .json(..)
    sent,       \* per call: the bodies of the HTTP requests issued by .send()
    pc,         \* per call: the await it is suspended at, or its return site
    wire,       \* per call: the response of the remote end
    frags,      \* per call: the chunks stream.next() has yielded so far
    emitted,    \* per call: the app_handle.emit calls made, in order
    result      \* per call: the value returned

vars == <<mode, enable_deep_thinking, request_body, sent, pc, wire, frags, emitted, result>>

Pending == [ok |-> FALSE, err |-> <<"pending">>, value |-> 0]
Ok(v) == [ok |-> TRUE, err |-> <<>>, value |-> v]
Err(msg) == [ok |-> FALSE, err |-> msg, value |-> 0]

Returned == {"ret_send_err", "ret_api_err", "ret_parse_err", "ret_ok",
             "ret_read_err", "ret_done", "ret_end"}

\* bytes of the body the chunks so far have consumed
Consumed(c) == Len(Concat(frags[c]))

\* obj[key] = val on a serde_json object: the key is added or overwritten
insert(obj, key, val) ==
    [k \in (DOMAIN obj) \cup {key} |-> IF k = key THEN val ELSE obj[k]]

\* build_request with the field left out when thinking is off (what
\* serializing struct ChatRequest with thinking: None would give)
build_request_omits_disabled(stream, thinking) ==
    LET body == [model |-> "model", messages |-> "messages", stream |-> stream]
    IN IF thinking THEN insert(body, "thinking", [type |-> "enabled"]) ELSE body

\* let mut request_body = json!({..}); request_body["thinking"] = json!({..})
build_request(stream, thinking) ==
    LET body == [model |-> "model", messages |-> "messages", stream |-> stream]
    IN IF thinking
       THEN insert(body, "thinking", [type |-> "enabled"])
       ELSE insert(body, "thinking", [type |-> "disabled"])

\* The state when the commands have been invoked with modes ms (call -> mode)
\* and flags fs (call -> enable_deep_thinking), every request body is built,
\* and the remote end will answer ws (call -> response).
Start(ms, fs, ws) ==
    /\ mode = ms
    /\ enable_deep_thinking = fs
    /\ request_body = [c \in Calls |->
                         IF ms[c] = "idle" THEN <<>>
                         ELSE build_request(ms[c] = "stream", fs[c])]
    /\ sent = [c \in Calls |-> <<>>]
    /\ pc = [c \in Calls |-> IF ms[c] = "idle" THEN "idle" ELSE "send"]
    /\ wire = ws
    /\ frags = [c \in Calls |-> <<>>]
    /\ emitted = [c \in Calls |-> <<>>]
    /\ result = [c \in Calls |-> Pending]

\* a few responses of each kind
FewWire(m) ==
    IF m = "stream"
    THEN [success : {TRUE}, body : {Line(<<"J", "h", "E">>), Line(DoneSentinel)}]
         \cup {[success |-> FALSE, body |-> <<"rate limited">>]}
    ELSE {[success |-> TRUE, body |-> <<"J", "m", "E">>],
          [success |-> FALSE, body |-> <<"rate limited">>]}

\* One command is invoked with mode m, flag f and response w; the other call
\* slot stays idle.
One(m, f, w) ==
    Start([c \in Calls |-> IF c = 1 THEN m ELSE "idle"],
          [c \in Calls |-> IF c = 1 THEN f ELSE FALSE],
          [c \in Calls |-> IF c = 1 THEN w ELSE NoWire])

\* One command is invoked, in either mode.  The flag only shapes the request
\* body, so the large set of responses is explored with thinking off and a few
\* responses with thinking on.
Init ==
    \E m \in {"blocking", "stream"} :
        \/ \E w \in Wire(m) : One(m, FALSE, w)
        \/ \E w \in FewWire(m) : One(m, TRUE, w)

\* ----------------------------------------------------------------- actions
\* text_of with a buffer shared by all calls: the chunk is decoded behind
\* whatever the other call read last
text_of_shared_buffer(c, chunk) ==
    LET o == CHOOSE d \in Calls : d # c
    IN from_utf8_lossy((IF frags[o] = <<>> THEN <<>> ELSE frags[o][Len(frags[o])])
                       \o chunk)

\* text_of with a remainder kept by the call: the chunk is decoded behind the
\* unterminated tail of the chunk read before it
text_of_keeps_remainder(c, chunk) ==
    LET prev == IF frags[c] = <<>> THEN <<>> ELSE frags[c][Len(frags[c])]
        nl   == {i \in 1..Len(prev) : prev[i] = LF}
        from == IF nl = {} THEN 1 ELSE (CHOOSE i \in nl : \A j \in nl : j <= i) + 1
    IN from_utf8_lossy(SubSeq(prev, from, Len(prev)) \o chunk)

\* let text = String::from_utf8_lossy(&chunk): a local of call c, made from
\* the chunk just read and nothing else.
text_of(c, chunk) == from_utf8_lossy(chunk)

\* SendOk without the status check
SendOk_ignores_status(c) ==
    /\ pc[c] = "send"
    /\ pc' = [pc EXCEPT ![c] = IF mode[c] = "stream" THEN "next" ELSE "json"]
    /\ UNCHANGED <<mode, enable_deep_thinking, request_body, wire, frags, emitted, result>>
    /\ sent' = [sent EXCEPT ![c] = Append(@, request_body[c])]

\* ReadFail that closes the event sequence with a done event before it fails
ReadFail_emits_done(c) ==
    /\ pc[c] = "next"
    /\ pc' = [pc EXCEPT ![c] = "ret_read_err"]
    /\ result' = [result EXCEPT ![c] = Err(<<"Failed to read chunk: ", "e">>)]
    /\ emitted' = [emitted EXCEPT ![c] =
                     Append(@, [data |-> StreamData(None, None, TRUE),
                                at |-> Consumed(c), delivered |-> TRUE])]
    /\ UNCHANGED <<mode, enable_deep_thinking, request_body, wire, frags>>
    /\ UNCHANGED sent

\* ReadFail that takes back what was emitted
ReadFail_rolls_back(c) ==
    /\ pc[c] = "next"
    /\ pc' = [pc EXCEPT ![c] = "ret_read_err"]
    /\ result' = [result EXCEPT ![c] = Err(<<"Failed to read chunk: ", "e">>)]
    /\ emitted' = [emitted EXCEPT ![c] = <<>>]
    /\ UNCHANGED <<mode, enable_deep_thinking, request_body, wire, frags>>
    /\ UNCHANGED sent

\* StreamEnd with the loop polling the ended stream again instead of leaving
StreamEnd_polls_again(c) ==
    /\ pc[c] = "next"
    /\ Consumed(c) = Len(wire[c].body)
    /\ UNCHANGED vars

\* StreamEnd that closes the event sequence with a done event
StreamEnd_emits_done(c) ==
    /\ pc[c] = "next"
    /\ Consumed(c) = Len(wire[c].body)
    /\ pc' = [pc EXCEPT ![c] = "ret_end"]
    /\ result' = [result EXCEPT ![c] = Ok(0)]
    /\ emitted' = [emitted EXCEPT ![c] =
                     Append(@, [data |-> StreamData(None, None, TRUE),
                                at |-> Consumed(c), delivered |-> TRUE])]
    /\ UNCHANGED <<mode, enable_deep_thinking, request_body, wire, frags>>
    /\ UNCHANGED sent

\* SendFail that tries the request once more before it gives up
SendFail_retries(c) ==
    /\ pc[c] = "send"
    /\ pc' = [pc EXCEPT ![c] = IF sent[c] = <<>> THEN "send" ELSE "ret_send_err"]
    /\ result' = [result EXCEPT ![c] =
                    IF sent[c] = <<>> THEN @
                    ELSE Err(<<"Failed to send request: ", "e">>)]
    /\ UNCHANGED <<mode, enable_deep_thinking, request_body, wire, frags, emitted>>
    /\ sent' = [sent EXCEPT ![c] = Append(@, request_body[c])]

\* JsonBody that answers an undecodable body with an empty response
JsonBody_defaults(c) ==
    /\ pc[c] = "json"
    /\ LET r == json_ChatResponse(wire[c].body)
       IN /\ pc' = [pc EXCEPT ![c] = "ret_ok"]
          /\ result' = [result EXCEPT ![c] = Ok(IF r.ok THEN r.choices ELSE 0)]
    /\ UNCHANGED <<mode, enable_deep_thinking, request_body, wire, frags, emitted>>
    /\ UNCHANGED sent

\* request_builder.send().await fails: map_err(...)? returns.
SendFail(c) ==
    /\ pc[c] = "send"
    /\ pc' = [pc EXCEPT ![c] = "ret_send_err"]
    /\ result' = [result EXCEPT ![c] = Err(<<"Failed to send request: ", "e">>)]
    /\ UNCHANGED <<mode, enable_deep_thinking, request_body, wire, frags, emitted>>
    /\ sent' = [sent EXCEPT ![c] = Append(@, request_body[c])]

\* send().await yields a response: branch on response.status().is_success().
SendOk(c) ==
    /\ pc[c] = "send"
    /\ pc' = [pc EXCEPT ![c] =
                IF ~wire[c].success THEN "error_text"
                ELSE IF mode[c] = "stream" THEN "next" ELSE "json"]
    /\ UNCHANGED <<mode, enable_deep_thinking, request_body, wire, frags, emitted, result>>
    /\ sent' = [sent EXCEPT ![c] = Append(@, request_body[c])]

\* response.text().await.unwrap_or_else(|_| "Unknown error"), then
\* return Err(format!("API Error: {}", error_text)).
ErrorText(c) ==
    /\ pc[c] = "error_text"
    /\ \E readable \in BOOLEAN :
         LET error_text == IF readable THEN from_utf8_lossy(wire[c].body)
                           ELSE <<"Unknown error">>
         IN result' = [result EXCEPT ![c] = Err(<<"API Error: ">> \o error_text)]
    /\ pc' = [pc EXCEPT ![c] = "ret_api_err"]
    /\ UNCHANGED <<mode, enable_deep_thinking, request_body, wire, frags, emitted>>
    /\ UNCHANGED sent

\* response.json::<ChatResponse>().await, map_err(...)?, Ok(result).
JsonBody(c) ==
    /\ pc[c] = "json"
    /\ LET r == json_ChatResponse(wire[c].body)
       IN IF r.ok
          THEN /\ pc' = [pc EXCEPT ![c] = "ret_ok"]
               /\ result' = [result EXCEPT ![c] = Ok(r.choices)]
          ELSE /\ pc' = [pc EXCEPT ![c] = "ret_parse_err"]
               /\ result' = [result EXCEPT ![c] = Err(<<"Failed to parse response: ", "e">>)]
    /\ UNCHANGED <<mode, enable_deep_thinking, request_body, wire, frags, emitted>>
    /\ UNCHANGED sent

\* stream.next().await yields Some(Ok(chunk)): the next n bytes of the body.
\* The whole line loop runs before the next await; every emit call is
\* accepted or refused by the event sink, and its Result is dropped.
NextChunk(c) ==
    /\ pc[c] = "next"
    /\ Len(frags[c]) < MaxFrags
    /\ LET read == Consumed(c)
           left == Len(wire[c].body) - read
       IN \E n \in 1..left :
            /\ Len(frags[c]) + 1 = MaxFrags => n = left
            /\ LET chunk == SubSeq(wire[c].body, read + 1, read + n)
                   run   == on_chunk(text_of(c, chunk), read)
               IN /\ frags' = [frags EXCEPT ![c] = Append(@, chunk)]
                  /\ \E sink \in [1..Len(run.emits) -> BOOLEAN] :
                       emitted' = [emitted EXCEPT ![c] = @ \o emit_calls(run.emits, sink)]
                  /\ pc' = [pc EXCEPT ![c] = after_chunk(run.returned)]
                  /\ result' = [result EXCEPT ![c] = IF run.returned THEN Ok(0) ELSE @]
    /\ UNCHANGED <<mode, enable_deep_thinking, request_body, wire>>
    /\ UNCHANGED sent

\* stream.next().await yields Some(Err(e)): chunk.map_err(...)? returns.
ReadFail(c) ==
    /\ pc[c] = "next"
    /\ pc' = [pc EXCEPT ![c] = "ret_read_err"]
    /\ result' = [result EXCEPT ![c] = Err(<<"Failed to read chunk: ", "e">>)]
    /\ UNCHANGED <<mode, enable_deep_thinking, request_body, wire, frags, emitted>>
    /\ UNCHANGED sent

\* stream.next().await yields None: the loop ends, Ok(()).
StreamEnd(c) ==
    /\ pc[c] = "next"
    /\ Consumed(c) = Len(wire[c].body)
    /\ pc' = [pc EXCEPT ![c] = "ret_end"]
    /\ result' = [result EXCEPT ![c] = Ok(0)]
    /\ UNCHANGED <<mode, enable_deep_thinking, request_body, wire, frags, emitted>>
    /\ UNCHANGED sent

Next ==
    \E c \in Calls :
        \/ SendFail(c)
        \/ SendOk(c)
        \/ ErrorText(c)
        \/ JsonBody(c)
        \/ NextChunk(c)
        \/ ReadFail(c)
        \/ StreamEnd(c)

Spec == Init /\ [][Next]_vars

\* Two streaming calls at once.  The bodies are fixed (the cuts, the read
\* failures and the sink are not) to keep the product of the two calls small.
ConcBodies ==
    { Line(<<"J", "h", "E">>),
      Line(DoneSentinel) }

ConcWire(m) ==
    IF m = "stream"
    THEN [success : {TRUE}, body : ConcBodies]
         \cup {[success |-> FALSE, body |-> <<"rate limited">>]}
    ELSE {[success |-> TRUE, body |-> <<"J", "m", "E">>],
          [success |-> FALSE, body |-> <<"rate limited">>]}

\* the two calls differ in their flag
ConcFlags == [c \in Calls |-> c = 1]

InitConc ==
    \E ms \in [Calls -> {"blocking", "stream"}] :
        \E w1 \in ConcWire(ms[1]) :
            \E w2 \in ConcWire(ms[2]) :
                Start(ms, ConcFlags, [c \in Calls |-> IF c = 1 THEN w1 ELSE w2])

SpecConc == InitConc /\ [][Next]_vars

\* ------------------------------------------------- vocabulary of the claims
StreamCalls == {c \in Calls : mode[c] = "stream"}

\* the StreamData of the emit calls of call c, in order
Updates(c) == [i \in 1..Len(emitted[c]) |-> emitted[c][i].data]

DoneCount(c) == Cardinality({i \in 1..Len(emitted[c]) : emitted[c][i].data.done})

\* offset in the body at which chunk k of call c starts
RECURSIVE BaseOf(_, _)
BaseOf(c, k) == IF k = 1 THEN 0 ELSE BaseOf(c, k - 1) + Len(frags[c][k - 1])

IsDataLine(l) == starts_with(l, DataPrefix)
IsDoneLine(l) == IsDataLine(l) /\ slice_from(l, PrefixLen) = DoneSentinel

\* "other": no data line; "done": the sentinel; "malformed": a data line that
\* is no StreamChunk; "empty": a StreamChunk without choices; "update": a
\* StreamChunk with at least one choice
KindOf(l) ==
    IF ~IsDataLine(l) THEN "other"
    ELSE IF IsDoneLine(l) THEN "done"
    ELSE LET json == from_str(slice_from(l, PrefixLen))
         IN IF ~json.ok THEN "malformed"
            ELSE IF json.choices = <<>> THEN "empty" ELSE "update"

\* the lines of a text at offset base, each with its offset in the body, its
\* kind and whether a sentinel line comes before it in the same text
RECURSIVE Classify(_, _, _)
Classify(ls, base, afterDone) ==
    IF ls = <<>> THEN <<>>
    ELSE <<[at |-> base + ls[1].off, text |-> ls[1].text, kind |-> KindOf(ls[1].text),
            afterDone |-> afterDone]>>
         \o Classify(Tail(ls), base, afterDone \/ IsDoneLine(ls[1].text))

\* the lines of the chunks call c has read, as the code sees them, in order,
\* each with the number of its chunk (k is the number of chunks)
RECURSIVE SeenLines(_, _)
SeenLines(c, k) ==
    IF k = 0 THEN <<>>
    ELSE LET cl == Classify(lines(from_utf8_lossy(frags[c][k])), BaseOf(c, k), FALSE)
         IN SeenLines(c, k - 1)
            \o [i \in 1..Len(cl) |->
                  [chunk |-> k, at |-> cl[i].at, text |-> cl[i].text, kind |-> cl[i].kind,
                   afterDone |-> cl[i].afterDone]]

\* a "data: [DONE]" line is among the lines of a chunk read by call c
ObservedDone(c) ==
    LET sl == SeenLines(c, Len(frags[c]))
    IN \E i \in 1..Len(sl) : sl[i].kind = "done"

\* the lines of the whole body
BodyLines(c) == Classify(lines(from_utf8_lossy(wire[c].body)), 0, FALSE)

\* index of the line of bl that holds offset at
LineAt(bl, at) == Cardinality({i \in 1..Len(bl) : bl[i].at <= at})

\* ------------------------------------------- streams with lines to ignore
\* Lines without the `data: ` prefix among event lines.
IgnoredKinds ==
    { <<LF>>,                                            \* blank keep-alive
      <<":", LF>>,                                       \* comment
      <<"event", ":", SP, LF>>,                          \* event: field
      SubSeq(DataPrefix, 1, PrefixLen - 1) \o DoneSentinel \o <<LF>> }  \* data:[DONE]

IgnoredWire(m) ==
    IF m = "stream"
    THEN [success : {TRUE},
          body : Payloads(IgnoredKinds \cup {Line(<<"J", "h", "E">>), Line(DoneSentinel)})]
         \cup {[success |-> FALSE, body |-> <<"rate limited">>]}
    ELSE FewWire(m)

InitIgnored ==
    \E m \in {"blocking", "stream"} : \E w \in IgnoredWire(m) : One(m, FALSE, w)

SpecIgnored == InitIgnored /\ [][Next]_vars

\* ----------------------------------------- streams of well-formed events
\* StreamChunk lines with no, one or two choices and every shape of delta.
ChoiceKinds ==
    { Line(<<"J", "E">>),                \* choices: []
      Line(<<"J", "l", "h", "E">>),      \* two choices
      Line(<<"J", "b", "E">>),           \* content and reasoning_content
      Line(<<"J", "n", "E">>) }          \* neither field

ChoiceWire(m) ==
    IF m = "stream"
    THEN [success : {TRUE}, body : Payloads(ChoiceKinds)]
         \cup {[success |-> FALSE, body |-> <<"rate limited">>]}
    ELSE FewWire(m)

InitChoices ==
    \E m \in {"blocking", "stream"} : \E w \in ChoiceWire(m) : One(m, FALSE, w)

SpecChoices == InitChoices /\ [][Next]_vars

\* ------------------------------------------------- awaits that resolve
\* Every future the call awaits resolves: send() with a response or an error,
\* the body reads of the error and blocking paths, and stream.next() with a
\* chunk, the end of the stream or (not forced) an error.
LiveWire(m) ==
    IF m = "stream"
    THEN [success : {TRUE}, body : Payloads({Line(<<"J", "h", "E">>), Line(DoneSentinel)})]
         \cup {[success |-> FALSE, body |-> <<"rate limited">>]}
    ELSE FewWire(m)

InitLive ==
    \E m \in {"blocking", "stream"} : \E w \in LiveWire(m) : One(m, FALSE, w)

\* call c waits in stream.next() with bytes of the body still to come: the
\* states in which NextChunk(c) can happen
ChunkWaiting(c) ==
    /\ pc[c] = "next"
    /\ Len(frags[c]) < MaxFrags
    /\ Consumed(c) < Len(wire[c].body)

\* weak fairness of NextChunk(c), its enabling condition written out
ChunkArrives(c) == []<>(~ChunkWaiting(c)) \/ []<><<NextChunk(c)>>_vars

Resolves ==
    \A c \in Calls :
        /\ WF_vars(SendFail(c) \/ SendOk(c))
        /\ WF_vars(ErrorText(c))
        /\ WF_vars(JsonBody(c))
        /\ ChunkArrives(c)
        /\ WF_vars(StreamEnd(c))

SpecLive == InitLive /\ [][Next]_vars /\ Resolves

\* ------------------------------------------------------------------ claims

\* C1: when the stream has completed, the updates emitted are those the same
\* body yields when it arrives as one fragment, however it was cut.
C1_SameAsSingleFragment ==
    \A c \in StreamCalls :
        pc[c] \in {"ret_done", "ret_end"} =>
            LET whole == on_chunk(from_utf8_lossy(wire[c].body), 0).emits
            IN Updates(c) = [j \in 1..Len(whole) |-> whole[j].data]

\* C2: the updates are emitted in the order of the data lines of the input:
\* each update comes from a data line of the concatenated input, and an
\* earlier update comes from an earlier line.
C2_OrderPreserved ==
    \A c \in StreamCalls :
        emitted[c] # <<>> =>
            LET bl == BodyLines(c)
                ln == [i \in 1..Len(emitted[c]) |-> LineAt(bl, emitted[c][i].at)] \o <<>>
            IN /\ \A i \in 1..Len(ln) :
                     /\ emitted[c][i].at < Len(wire[c].body)
                     /\ bl[ln[i]].kind # "other"
               /\ \A i \in 1..(Len(ln) - 1) : ln[i] < ln[i + 1]

C2_Witness ==
    \E c \in StreamCalls :
        /\ Len(frags[c]) = 2
        /\ Len(emitted[c]) = 2
        /\ emitted[c][1].at < Len(frags[c][1])
        /\ emitted[c][2].at >= Len(frags[c][1])

\* a call that observed the sentinel stands at the sentinel's return, its
\* last emit being the done update
C3_State ==
    \A c \in StreamCalls :
        ObservedDone(c) =>
            /\ pc[c] = "ret_done"
            /\ emitted[c] # <<>>
            /\ emitted[c][Len(emitted[c])].data.done

\* after the sentinel nothing is emitted and nothing is read
C3_Step ==
    \A c \in StreamCalls :
        ObservedDone(c) => emitted'[c] = emitted[c] /\ frags'[c] = frags[c]

\* C3: once a "data: [DONE]" line was observed the call has returned at the
\* sentinel, the done update is the last one emitted, and from then on no
\* update is emitted and no fragment is read.
C3_Terminal == []C3_State /\ [][C3_Step]_vars

\* the sentinel was seen in a chunk that goes on with a line that would have
\* made an update, and bytes of the body are still unread
C3_Witness ==
    \E c \in StreamCalls :
        /\ ObservedDone(c)
        /\ Consumed(c) < Len(wire[c].body)
        /\ LET sl == SeenLines(c, Len(frags[c]))
           IN \E j \in 1..Len(sl) : sl[j].afterDone /\ sl[j].kind = "update"

\* C4 as stated: every streaming call that ran its stream to the end has
\* emitted exactly one done update, as its last, without content.
C4_ExactlyOneDone ==
    \A c \in StreamCalls :
        pc[c] \in {"ret_done", "ret_end"} =>
            /\ DoneCount(c) = 1
            /\ emitted[c][Len(emitted[c])].data = StreamData(None, None, TRUE)

\* C4 as amended: a done update is emitted at most once, only by the call
\* that returns at the sentinel; it is then the last update and carries
\* neither content nor reasoning_content.
C4_AtMostOneDone ==
    \A c \in StreamCalls :
        /\ DoneCount(c) = IF pc[c] = "ret_done" THEN 1 ELSE 0
        /\ \A i \in 1..Len(emitted[c]) :
              emitted[c][i].data.done =>
                 /\ i = Len(emitted[c])
                 /\ emitted[c][i].data = StreamData(None, None, TRUE)

C4_Witness ==
    \E c \in StreamCalls :
        /\ pc[c] = "ret_done"
        /\ Len(emitted[c]) = 2
        /\ ~emitted[c][1].data.done
        /\ emitted[c][2].data.done

\* C5: a malformed data line makes no update and no error, and a valid data
\* line after it (same chunk or a later one, no sentinel before it in its
\* chunk) still makes its update.
C5_MalformedSkipped ==
    \A c \in StreamCalls :
        /\ pc[c] # "ret_parse_err"
        /\ frags[c] # <<>> =>
             LET sl == SeenLines(c, Len(frags[c]))
             IN \A i \in 1..Len(sl) :
                   sl[i].kind = "malformed" =>
                      /\ \A e \in 1..Len(emitted[c]) : emitted[c][e].at # sl[i].at
                      /\ result[c].ok \/ result[c].err[1] \in {"pending", "Failed to read chunk: "}
                      /\ \A j \in (i + 1)..Len(sl) :
                            (sl[j].kind = "update" /\ ~sl[j].afterDone) =>
                               \E e \in 1..Len(emitted[c]) :
                                  /\ emitted[c][e].at = sl[j].at
                                  /\ emitted[c][e].data =
                                       first_choice(from_str(
                                           slice_from(sl[j].text, PrefixLen)).choices)[1]

\* a malformed line in the first chunk, a valid line in the second
C5_Witness ==
    \E c \in StreamCalls :
        /\ Len(frags[c]) = 2
        /\ LET sl == SeenLines(c, 2)
           IN \E i, j \in 1..Len(sl) :
                 /\ sl[i].chunk = 1 /\ sl[i].kind = "malformed"
                 /\ sl[j].chunk = 2 /\ sl[j].kind = "update"
        /\ Len(emitted[c]) = 1

\* a call that returned on a failed read holds the read error and has
\* emitted no done update
C6_State ==
    \A c \in StreamCalls :
        pc[c] = "ret_read_err" =>
            /\ result[c] = Err(<<"Failed to read chunk: ", "e">>)
            /\ DoneCount(c) = 0

\* neither the failing read nor any step after it changes what was emitted
C6_Step ==
    \A c \in StreamCalls :
        pc'[c] = "ret_read_err" => emitted'[c] = emitted[c]

\* C6: a failed read makes the call return an error; what was emitted stays
\* as it is, and nothing (no done update either) is emitted afterwards.
C6_ReadFailure == []C6_State /\ [][C6_Step]_vars

C6_Witness ==
    \E c \in StreamCalls :
        /\ pc[c] = "ret_read_err"
        /\ Len(emitted[c]) >= 1
        /\ emitted[c][1].delivered

\* the offsets of the lines, of the chunks read so far, that call for an emit:
\* update lines and the sentinel, up to the first sentinel of a chunk
ExpectedAt(c) ==
    LET sl == SeenLines(c, Len(frags[c]))
    IN {sl[i].at : i \in {i \in 1..Len(sl) :
                            sl[i].kind \in {"update", "done"} /\ ~sl[i].afterDone}}

\* C7: when the sink refused an update, the call still made every emit call
\* the lines it read ask for, and its position and result are those the
\* chunks alone determine.
C7_SinkFailureIgnored ==
    \A c \in StreamCalls :
        (\E i \in 1..Len(emitted[c]) : ~emitted[c][i].delivered) =>
            /\ LET want == ExpectedAt(c)
               IN /\ {emitted[c][i].at : i \in 1..Len(emitted[c])} = want
                  /\ Len(emitted[c]) = Cardinality(want)
            /\ pc[c] \in {"next", "ret_done", "ret_end", "ret_read_err"}
            /\ ObservedDone(c) <=> pc[c] = "ret_done"
            /\ result[c] = CASE pc[c] = "next" -> Pending
                             [] pc[c] = "ret_read_err" -> Err(<<"Failed to read chunk: ", "e">>)
                             [] OTHER -> Ok(0)

\* the sink refused the first update and the next line's update was emitted
C7_Witness ==
    \E c \in StreamCalls :
        /\ Len(emitted[c]) = 2
        /\ ~emitted[c][1].delivered
        /\ emitted[c][2].delivered
        /\ pc[c] = "ret_end"

Contains(msg, text) ==
    \E i \in 1..(Len(msg) + 1) :
        i + Len(text) - 1 <= Len(msg) /\ SubSeq(msg, i, i + Len(text) - 1) = text

\* C8: after a non-success status either command ends at the API-error
\* return with a message holding the body text, or the placeholder when the
\* body could not be read; no chunk is read and nothing is emitted.
C8_ApiError ==
    \A c \in Calls :
        (mode[c] # "idle" /\ ~wire[c].success /\ pc[c] \notin {"send", "ret_send_err"}) =>
            /\ pc[c] \in {"error_text", "ret_api_err"}
            /\ frags[c] = <<>>
            /\ emitted[c] = <<>>
            /\ pc[c] = "ret_api_err" =>
                  /\ ~result[c].ok
                  /\ result[c].err[1] = "API Error: "
                  /\ \/ Contains(result[c].err, wire[c].body)
                     \/ result[c].err = <<"API Error: ", "Unknown error">>

C8_Witness ==
    \E c \in StreamCalls :
        /\ pc[c] = "ret_api_err"
        /\ wire[c].body = <<"rate limited">>
        /\ result[c].err = <<"API Error: ", "rate limited">>

\* a call that returned at the end of the chunk sequence saw no sentinel,
\* returned Ok and emitted no done update
C9_State ==
    \A c \in StreamCalls :
        pc[c] = "ret_end" =>
            /\ ~ObservedDone(c)
            /\ result[c] = Ok(0)
            /\ DoneCount(c) = 0

\* after that return nothing is emitted and the result stays
C9_Step ==
    \A c \in StreamCalls :
        pc[c] = "ret_end" => emitted'[c] = emitted[c] /\ result'[c] = result[c]

\* C9: a call whose chunk sequence ended without a sentinel returns Ok like
\* a complete one, has emitted no done update and never emits one.
C9_NoAbortSignal == []C9_State /\ [][C9_Step]_vars

\* the body held a sentinel, the call emitted updates, the stream ended and
\* the sentinel was never seen
C9_Witness ==
    \E c \in StreamCalls :
        /\ pc[c] = "ret_end"
        /\ emitted[c] # <<>>
        /\ LET bl == BodyLines(c) IN \E i \in 1..Len(bl) : bl[i].kind = "done"

\* what call c's own chunks, each decoded alone, ask to emit
RECURSIVE OwnEmits(_, _)
OwnEmits(c, k) ==
    IF k = 0 THEN <<>>
    ELSE OwnEmits(c, k - 1) \o on_chunk(from_utf8_lossy(frags[c][k]), BaseOf(c, k)).emits

\* C10: with calls running side by side, what a call has emitted and its
\* result are determined by that call's own chunks and position.
C10_Independent ==
    \A c \in StreamCalls :
        /\ LET own == OwnEmits(c, Len(frags[c]))
           IN /\ Len(emitted[c]) = Len(own)
              /\ \A i \in 1..Len(own) :
                    /\ emitted[c][i].data = own[i].data
                    /\ emitted[c][i].at = own[i].at
        /\ Concat(frags[c]) = SubSeq(wire[c].body, 1, Consumed(c))
        /\ result[c].ok <=> pc[c] \in {"ret_done", "ret_end"}

\* both calls are in the middle of their streams, over different bodies, and
\* one has emitted
C10_Witness ==
    /\ \A c \in Calls :
          /\ mode[c] = "stream"
          /\ pc[c] = "next"
          /\ Len(frags[c]) = 1
          /\ Consumed(c) < Len(wire[c].body)
    /\ wire[1].body # wire[2].body
    /\ emitted[1] # <<>>

-----------------------------------------------------------------------------
\* body holds a "thinking" object whose only field "type" is "enabled" when
\* flag is true and "disabled" when it is false
HasThinking(body, flag) ==
    /\ "thinking" \in DOMAIN body
    /\ DOMAIN body["thinking"] = {"type"}
    /\ body["thinking"]["type"] \in {"enabled", "disabled"}
    /\ body["thinking"]["type"] = "enabled" <=> flag

\* C11.  In both commands and for both values of enable_deep_thinking the
\* request body, as built and as sent, holds a "thinking" object whose type is
\* "enabled" exactly when the flag is true and "disabled" otherwise; the key is
\* never absent.
C11_ThinkingAlwaysPresent ==
    \A c \in Calls :
        mode[c] # "idle" =>
            /\ HasThinking(request_body[c], enable_deep_thinking[c])
            /\ request_body[c]["stream"] = (mode[c] = "stream")
            /\ \A i \in 1..Len(sent[c]) :
                   HasThinking(sent[c][i], enable_deep_thinking[c])

\* a request with thinking off has been sent
C11_Witness ==
    /\ mode[1] # "idle"
    /\ ~enable_deep_thinking[1]
    /\ Len(sent[1]) = 1
    /\ sent[1][1]["thinking"]["type"] = "disabled"

\* C12.  A call issues exactly one HTTP request whatever its outcome: none
\* before send() resolves, one ever after, and every way of returning (send,
\* status, decode or read failure, or success) leaves the count at one.
C12_SingleAttempt ==
    \A c \in Calls :
        /\ Len(sent[c]) <= 1
        /\ (mode[c] # "idle" /\ pc[c] # "send") => Len(sent[c]) = 1
        /\ pc[c] \in Returned => result[c] # Pending

\* a call has returned the transport failure of its one request
C12_Witness ==
    /\ pc[1] = "ret_send_err"
    /\ Len(sent[1]) = 1
    /\ ~result[1].ok

\* C14.  In blocking mode the result is decided in a fixed order: a failed
\* send gives the transport error; otherwise a non-success status gives the
\* API error, whatever the body; otherwise a body that does not decode as
\* ChatResponse gives the decode error, never a response; otherwise the decoded
\* response is the result.
C14_BlockingOrder ==
    \A c \in Calls :
        (mode[c] = "blocking" /\ pc[c] \in Returned) =>
            IF pc[c] = "ret_send_err"
            THEN result[c] = Err(<<"Failed to send request: ", "e">>)
            ELSE IF ~wire[c].success
            THEN /\ pc[c] = "ret_api_err"
                 /\ ~result[c].ok
                 /\ result[c].err[1] = "API Error: "
            ELSE IF wire[c].body # <<"J", "m", "E">>
            THEN /\ pc[c] = "ret_parse_err"
                 /\ result[c] = Err(<<"Failed to parse response: ", "e">>)
            ELSE /\ pc[c] = "ret_ok"
                 /\ result[c] = Ok(1)

\* a success status with a body lacking the required fields ended in the
\* decode error
C14_Witness ==
    /\ mode[1] = "blocking"
    /\ wire[1].success
    /\ wire[1].body = <<"{", "}">>
    /\ pc[1] = "ret_parse_err"
    /\ ~result[1].ok

\* the update a line of the given text makes when it is read whole
UpdateOf(line) ==
    IF line = Line(<<"J", "h", "E">>) THEN StreamData("Hel", None, FALSE)
    ELSE IF line = DataPrefix \o <<"J", "r", "E", CR, LF>> THEN StreamData(None, "why", FALSE)
    ELSE StreamData(None, None, FALSE)

\* the body is one event line with a choice and then the `data: [DONE]` line
EventThenDone(body) ==
    \E l \in {Line(<<"J", "h", "E">>), DataPrefix \o <<"J", "r", "E", CR, LF>>} :
        body = l \o Line(DoneSentinel)

\* C13.  When the first fragment is one valid data line with a choice followed
\* by the `data: [DONE]` line, the call makes exactly two updates, the content
\* update with done=false and then the terminal update with done=true, and
\* returns success.
C13_EventThenDone ==
    \A c \in StreamCalls :
        (Len(frags[c]) >= 1 /\ EventThenDone(frags[c][1])) =>
            /\ Updates(c) = <<UpdateOf(SubSeq(frags[c][1], 1, Len(frags[c][1]) - Len(Line(DoneSentinel)))),
                              StreamData(None, None, TRUE)>>
            /\ Len(frags[c]) = 1
            /\ pc[c] = "ret_done"
            /\ result[c] = Ok(0)

\* the scenario's fragment has been read in one piece and the call returned
C13_Witness ==
    /\ mode[1] = "stream"
    /\ frags[1] = <<Line(<<"J", "h", "E">>) \o Line(DoneSentinel)>>
    /\ Len(emitted[1]) = 2
    /\ emitted[1][1].data.content = "Hel"
    /\ ~emitted[1][1].data.done
    /\ emitted[1][2].data.done
    /\ pc[1] = "ret_done"

\* index of the last / first line feed of a chunk, 0 when it has none
LastLF(chunk) ==
    LET nl == {i \in 1..Len(chunk) : chunk[i] = LF}
    IN IF nl = {} THEN 0 ELSE CHOOSE i \in nl : \A j \in nl : j <= i

FirstLF(chunk) ==
    LET nl == {i \in 1..Len(chunk) : chunk[i] = LF}
    IN IF nl = {} THEN 0 ELSE Min(nl)

\* chunk k of call c ends inside a line that starts in chunk k
OpensLine(c, k) ==
    /\ LastLF(frags[c][k]) < Len(frags[c][k])
    /\ k = 1 \/ LastLF(frags[c][k]) > 0
          \/ LastLF(frags[c][k - 1]) = Len(frags[c][k - 1])

\* body offset at which the unterminated tail of chunk k starts
TailStart(c, k) == BaseOf(c, k) + LastLF(frags[c][k])

\* no emit call was made for the unterminated tail of chunk k
TailSilent(c, k) ==
    \A i \in 1..Len(emitted[c]) :
        ~(/\ emitted[c][i].at >= TailStart(c, k)
          /\ emitted[c][i].at < BaseOf(c, k) + Len(frags[c][k]))

\* the line opened by the tail of chunk k and closed in chunk k + 1
Completed(c, k) ==
    strip_line(SubSeq(frags[c][k], LastLF(frags[c][k]) + 1, Len(frags[c][k]))
               \o SubSeq(frags[c][k + 1], 1, FirstLF(frags[c][k + 1])))

\* C15.  Only terminated lines are consumed: the unterminated tail of a
\* fragment makes no update and no terminal event while that fragment is
\* processed, and the line it opens is processed once the fragment holding its
\* terminator has been read.
C15_OnlyTerminatedLinesConsumed ==
    \A c \in StreamCalls :
        \A k \in 1..Len(frags[c]) :
            OpensLine(c, k) =>
                /\ TailSilent(c, k)
                /\ (/\ k < Len(frags[c])
                    /\ FirstLF(frags[c][k + 1]) > 0
                    /\ DoneCount(c) = 0
                    /\ KindOf(Completed(c, k)) = "update")
                   => \E i \in 1..Len(emitted[c]) : emitted[c][i].at = TailStart(c, k)

\* the pieces of a text that are lines with the `data: ` prefix, joined
RECURSIVE DataPieces(_)
DataPieces(ps) ==
    IF ps = <<>> THEN <<>>
    ELSE (IF IsDataLine(strip_line(ps[1].text)) THEN ps[1].text ELSE <<>>)
         \o DataPieces(Tail(ps))

\* what the chunks of call c make the loop emit once every line without the
\* prefix is taken out of them (k is the number of chunks)
RECURSIVE EmitsOfDataLines(_, _)
EmitsOfDataLines(c, k) ==
    IF k = 0 THEN <<>>
    ELSE LET run == on_chunk(DataPieces(split_inclusive(from_utf8_lossy(frags[c][k]), 0)), 0)
         IN EmitsOfDataLines(c, k - 1) \o [i \in 1..Len(run.emits) |-> run.emits[i].data]

\* C16.  A line that does not start with `data: ` (blank, comment, `event:`,
\* `data:` without the space) makes no update, no terminal event and no error,
\* and the other lines are processed as if it were not there.
C16_NonDataLinesIgnored ==
    \A c \in StreamCalls :
        frags[c] # <<>> =>
            LET sl == SeenLines(c, Len(frags[c]))
            IN /\ \A i \in 1..Len(sl) :
                     sl[i].kind = "other" =>
                        \A e \in 1..Len(emitted[c]) : emitted[c][e].at # sl[i].at
               /\ Updates(c) = EmitsOfDataLines(c, Len(frags[c])) \o <<>>
               /\ pc[c] \in {"next", "ret_done", "ret_end", "ret_read_err"}
               /\ pc[c] = "next" => result[c] = Pending
               /\ pc[c] = "ret_done" <=> DoneCount(c) = 1

\* a `data:[DONE]` line without the space was read and passed over, and the
\* event line after it made its update
C16_Witness ==
    /\ mode[1] = "stream"
    /\ frags[1] = <<SubSeq(DataPrefix, 1, PrefixLen - 1) \o DoneSentinel \o <<LF>>
                    \o Line(<<"J", "h", "E">>)>>
    /\ Len(emitted[1]) = 1
    /\ emitted[1][1].data.content = "Hel"
    /\ pc[1] = "next"

\* the emit calls of call c made for the line at offset at
EmitsAt(c, at) == {e \in 1..Len(emitted[c]) : emitted[c][e].at = at}

\* C17.  A line that parses as a StreamChunk makes at most one update: with
\* choices, exactly one, with done=false and the content and
\* reasoning_content of the first choice's delta (an absent field stays
\* absent, later choices do not count); without choices, none.
C17_FirstChoiceOnly ==
    \A c \in StreamCalls :
        frags[c] # <<>> =>
            LET sl == SeenLines(c, Len(frags[c]))
            IN \A i \in 1..Len(sl) :
                  /\ (sl[i].kind = "empty" /\ ~sl[i].afterDone) => EmitsAt(c, sl[i].at) = {}
                  /\ (sl[i].kind = "update" /\ ~sl[i].afterDone) =>
                        LET first == StreamDelta(sl[i].text[PrefixLen + 2])
                        IN /\ Cardinality(EmitsAt(c, sl[i].at)) = 1
                           /\ \A e \in EmitsAt(c, sl[i].at) :
                                 emitted[c][e].data =
                                    [content |-> first.content,
                                     reasoning_content |-> first.reasoning_content,
                                     done |-> FALSE]

\* an event with two choices made the one update of its first choice, and an
\* event without choices after it made none
C17_Witness ==
    /\ mode[1] = "stream"
    /\ frags[1] = <<Line(<<"J", "l", "h", "E">>) \o Line(<<"J", "E">>)>>
    /\ Len(emitted[1]) = 1
    /\ emitted[1][1].data = StreamData("lo", None, FALSE)

\* C19.  A streaming call that emitted a done=true update has success as its
\* result; a call whose result is an error (send failure, non-success status,
\* read failure) emitted no done=true update; no call emits two.
C19_DoneImpliesSuccess ==
    \A c \in StreamCalls :
        /\ (\E i \in 1..Len(emitted[c]) : emitted[c][i].data.done) => result[c] = Ok(0)
        /\ (~result[c].ok /\ result[c] # Pending) =>
              /\ pc[c] \in {"ret_send_err", "ret_api_err", "ret_read_err"}
              /\ \A i \in 1..Len(emitted[c]) : ~emitted[c][i].data.done
        /\ \A i, j \in 1..Len(emitted[c]) :
              (emitted[c][i].data.done /\ emitted[c][j].data.done) => i = j

\* the sentinel came in the second fragment: the done update is out and the
\* result is success
C19_Witness ==
    /\ mode[1] = "stream"
    /\ Len(frags[1]) = 2
    /\ emitted[1] # <<>>
    /\ emitted[1][Len(emitted[1])].data.done
    /\ result[1] = Ok(0)

\* the updates the lines sl[i], sl[i + 1], ... stand for, one by one
RECURSIVE Decoded(_, _)
Decoded(sl, i) ==
    IF i > Len(sl) THEN <<>>
    ELSE (IF sl[i].kind = "done" THEN <<StreamData(None, None, TRUE)>>
          ELSE IF sl[i].kind = "update"
          THEN LET d == StreamDelta(sl[i].text[PrefixLen + 2])
               IN <<StreamData(d.content, d.reasoning_content, FALSE)>>
          ELSE <<>>)
         \o Decoded(sl, i + 1)

\* us up to and with its first done=true update
UpToDone(us) ==
    LET dn == {i \in 1..Len(us) : us[i].done}
    IN IF dn = {} THEN us ELSE SubSeq(us, 1, Min(dn))

\* C20.  The loop keeps nothing between fragments: the updates of a call are
\* the updates of each fragment's own lines (its unterminated last piece
\* counted as a line), fragment after fragment, cut right after the first
\* done=true update.
C20_PerFragmentDecode ==
    \A c \in StreamCalls :
        Updates(c) = UpToDone(Decoded(SeenLines(c, Len(frags[c])), 1)) \o <<>>

\* a fragment ended inside its last line, without the terminator, and that
\* piece was decoded there and then
C20_Witness ==
    /\ mode[1] = "stream"
    /\ Len(frags[1]) = 1
    /\ frags[1][1] = <<LF>> \o DataPrefix \o <<"J", "h", "E">>
    /\ Len(emitted[1]) = 1
    /\ emitted[1][1].at = 1
    /\ pc[1] = "next"

\* C18.  With every awaited read resolving, a streaming call completes: it
\* returns, and stays returned, at the sentinel, at a read failure, at the end
\* of the fragments or at a failed request, and the updates it emitted are
\* never more than the units of its body.
C18_Completes ==
    /\ \A c \in Calls :
          mode[c] = "stream" =>
             <>[](pc[c] \in {"ret_done", "ret_read_err", "ret_end",
                              "ret_send_err", "ret_api_err"})
    /\ [](\A c \in Calls : Len(emitted[c]) <= Len(wire[c].body))

\* a call left the loop because the fragments ran out, having emitted
C18_Witness ==
    /\ mode[1] = "stream"
    /\ pc[1] = "ret_end"
    /\ Len(frags[1]) = MaxFrags
    /\ emitted[1] # <<>>

====
